---- MODULE Spec2Model ----
(***************************************************************************)
(* Model of ratelim: Limiter::sync over a tokio Mutex guarding a           *)
(* LogicWrapper (a Logic policy plus a BinaryHeap of delayed frees), with  *)
(* the built-in policies Timeout and QuotaPer and a user-defined Logic.    *)
(* Time is a discrete monotonic clock (Instant::now()); one unit is one    *)
(* millisecond.                                                            *)
(***************************************************************************)
EXTENDS Integers, Sequences, FiniteSets, TLC

\* ---------------------------------------------------------------- bounds
\* number of concurrent callers (cloned handles); also the number of sync calls
NCallers == 2
\* largest Duration a policy is built with
MaxTimeout == 1
\* largest quota a QuotaPer is built with
MaxQuota == 1
\* largest number of records in the heap when it is driven alone
MaxHeap == 5

MaxCalls == NCallers + 1
MaxTime == MaxTimeout + 1
MaxWeight == MaxQuota + 1

\* A quota above the total weight MaxCalls calls can request
GenerousQuota == MaxCalls * MaxWeight + 1

\* u64::MAX, scaled to the model's integers: above every counter value the
\* weights up to MaxWeight can reach. u64 arithmetic is modulo U64Modulus.
MaxU64 == 2 * GenerousQuota + 1
U64Modulus == MaxU64 + 1

\* Limiter::new: Duration::from_millis(1)
PollingTimeout == 1

Callers == 1..NCallers
Durations == 0..MaxTimeout

VARIABLES
    logic,          \* LogicWrapper.logic: the policy and its fields
    delayed_frees,  \* LogicWrapper.delayed_frees: the BinaryHeap's backing vector
    holder,         \* the caller owning the MutexGuard, 0 when the Mutex is free
    waiters,        \* the Mutex's FIFO queue of callers suspended in lock().await
    pc,             \* each caller's position in sync
    arg,            \* each caller's `state` argument of sync
    wake,           \* each sleeping caller's tokio::time::sleep deadline
    now,            \* the clock read by Instant::now()
    calls,          \* number of sync calls started
    cancels,        \* number of sync calls abandoned by their caller
    overflow_checks,\* the build: TRUE when integer overflow panics, FALSE when it wraps
    admLog,         \* history: one entry per LogicWrapper::add
    freeLog         \* history: one entry per Logic::free call made by cleanup

vars == <<logic, delayed_frees, holder, waiters, pc, arg, wake, now, calls, cancels,
          overflow_checks, admLog, freeLog>>

\* ------------------------------------------------------------- policies
\* Timeout::new
TimeoutNew(t) ==
    [kind |-> "Timeout", is_timed_out |-> FALSE, quota |-> 0, state |-> 0, timeout |-> t]

\* QuotaPer::new
QuotaPerNew(q, t) ==
    [kind |-> "QuotaPer", is_timed_out |-> FALSE, quota |-> q, state |-> 0, timeout |-> t]

\* A user-defined Logic: its state is opaque, so is_ready answers an opaque
\* flag that add_for and free may set either way; the duration add_for returns
\* varies with the caller's state value (here: it is that value).
CustomNew(open) ==
    [kind |-> "Custom", is_timed_out |-> ~open, quota |-> 0, state |-> 0, timeout |-> 0]

\* The state values a caller may pass: () for Timeout; otherwise a u64, here
\* the unit weight or a weight above every quota.
StateValues(l) == IF l.kind = "Timeout" THEN {0} ELSE {1, MaxWeight}

\* is_ready with the comparison of QuotaPer made inclusive
IsReadyInclusive(l) ==
    CASE l.kind = "QuotaPer" -> l.state <= l.quota
      [] OTHER               -> ~l.is_timed_out

\* Logic::is_ready
IsReady(l) ==
    CASE l.kind = "Timeout"  -> ~l.is_timed_out
      [] l.kind = "QuotaPer" -> l.state < l.quota
      [] OTHER               -> ~l.is_timed_out

\* add_for of Timeout leaving the flag alone
AddForNoFlag(l, s) ==
    CASE l.kind = "Timeout"  -> {<<l, l.timeout>>}
      [] l.kind = "QuotaPer" -> {<<[l EXCEPT !.state = (l.state + s) % U64Modulus], l.timeout>>}
      [] OTHER               -> {<<[l EXCEPT !.is_timed_out = b], s>> : b \in BOOLEAN}

\* add_for of QuotaPer leaving the counter alone
AddForNoCount(l, s) ==
    CASE l.kind = "Timeout"  -> {<<[l EXCEPT !.is_timed_out = TRUE], l.timeout>>}
      [] l.kind = "QuotaPer" -> {<<l, l.timeout>>}
      [] OTHER               -> {<<[l EXCEPT !.is_timed_out = b], s>> : b \in BOOLEAN}

\* Whether `self.state += state` of QuotaPer leaves the u64 range
AddOverflows(l, s) == l.kind = "QuotaPer" /\ l.state + s > MaxU64

\* Logic::add_for: the set of <<policy after, duration returned>>; the sum of
\* QuotaPer is the wrapped one (a build with overflow checks panics instead,
\* see Add)
AddFor(l, s) ==
    CASE l.kind = "Timeout"  -> {<<[l EXCEPT !.is_timed_out = TRUE], l.timeout>>}
      [] l.kind = "QuotaPer" -> {<<[l EXCEPT !.state = (l.state + s) % U64Modulus], l.timeout>>}
      [] OTHER               -> {<<[l EXCEPT !.is_timed_out = b], s>> : b \in BOOLEAN}

\* free of Timeout leaving the flag set
FreeNoClear(l, s) ==
    CASE l.kind = "Timeout"  -> {l}
      [] l.kind = "QuotaPer" -> {[l EXCEPT !.state = (l.state - s) % U64Modulus]}
      [] OTHER               -> {[l EXCEPT !.is_timed_out = b] : b \in BOOLEAN}

\* Logic::free: the set of policies after; the difference of QuotaPer is the
\* wrapped one
Free(l, s) ==
    CASE l.kind = "Timeout"  -> {[l EXCEPT !.is_timed_out = FALSE]}
      [] l.kind = "QuotaPer" -> {[l EXCEPT !.state = (l.state - s) % U64Modulus]}
      [] OTHER               -> {[l EXCEPT !.is_timed_out = b] : b \in BOOLEAN}

\* ------------------------------------------------------ HeapValue, heap
\* cmp left in the natural order: self.0.0.cmp(&other.0.0)
HeapCmpForward(a, b) ==
    IF a.due < b.due THEN "Less" ELSE IF a.due = b.due THEN "Equal" ELSE "Greater"

\* Ord::cmp / PartialOrd::partial_cmp for HeapValue: other.0.0.cmp(&self.0.0)
HeapCmp(a, b) ==
    IF b.due < a.due THEN "Less" ELSE IF b.due = a.due THEN "Equal" ELSE "Greater"

\* a <= b as BinaryHeap evaluates it on HeapValue
HeapLe(a, b) == HeapCmp(a, b) # "Greater"

\* 0-based access to the heap's vector
At(h, i) == h[i + 1]

Swap(h, i, j) == [h EXCEPT ![i + 1] = h[j + 1], ![j + 1] = h[i + 1]]

\* BinaryHeap::sift_up(start, pos)
RECURSIVE SiftUp(_, _, _)
SiftUp(h, start, pos) ==
    IF pos > start
    THEN LET parent == (pos - 1) \div 2
         IN  IF HeapLe(At(h, pos), At(h, parent))
             THEN h
             ELSE SiftUp(Swap(h, pos, parent), start, parent)
    ELSE h

\* sift_down_to_bottom that always descends to the left child
RECURSIVE SiftDownLeft(_, _, _)
SiftDownLeft(h, start, pos) ==
    LET end   == Len(h)
        child == 2 * pos + 1
    IN  IF child <= end - 1
        THEN SiftDownLeft(Swap(h, pos, child), start, child)
        ELSE SiftUp(h, start, pos)

\* BinaryHeap::sift_down_to_bottom(start), the hole being at pos
RECURSIVE SiftDownToBottom(_, _, _)
SiftDownToBottom(h, start, pos) ==
    LET end   == Len(h)
        child == 2 * pos + 1
    IN  IF child <= end - 2
        THEN LET c == IF HeapLe(At(h, child), At(h, child + 1)) THEN child + 1 ELSE child
             IN  SiftDownToBottom(Swap(h, pos, c), start, c)
        ELSE IF child = end - 1
             THEN SiftUp(Swap(h, pos, child), start, child)
             ELSE SiftUp(h, start, pos)

\* push that writes over the last element instead of growing the vector
HeapPushOverwrite(h, item) ==
    IF h = <<>> THEN <<item>> ELSE SiftUp([h EXCEPT ![Len(h)] = item], 0, Len(h) - 1)

\* BinaryHeap::push
HeapPush(h, item) == SiftUp(Append(h, item), 0, Len(h))

\* BinaryHeap::peek
HeapPeek(h) == h[1]

\* pop that drops the vector's last element and leaves the root
HeapPopLast(h) == SubSeq(h, 1, Len(h) - 1)

\* BinaryHeap::pop: the heap left after removing the greatest item
HeapPop(h) ==
    IF Len(h) = 1
    THEN <<>>
    ELSE LET last == h[Len(h)]
             rest == SubSeq(h, 1, Len(h) - 1)
         IN  SiftDownToBottom([rest EXCEPT ![1] = last], 0, 0)

\* ---------------------------------------------------------- LogicWrapper
\* The record cleanup passes to free, and when
Freed(r, t) == [id |-> r.id, state |-> r.state, at |-> t]

\* cleanup that never breaks: every record is freed, due or not
RECURSIVE CleanupAll(_, _, _, _)
CleanupAll(l, h, t, freed) ==
    IF h = <<>>
    THEN {[logic |-> l, delayed_frees |-> h, freed |-> freed]}
    ELSE UNION { CleanupAll(l2, HeapPop(h), t, Append(freed, Freed(HeapPeek(h), t))) :
                 l2 \in Free(l, HeapPeek(h).state) }

\* cleanup that breaks on now <= delayed_for
RECURSIVE CleanupStrict(_, _, _, _)
CleanupStrict(l, h, t, freed) ==
    IF h = <<>> \/ t <= HeapPeek(h).due
    THEN {[logic |-> l, delayed_frees |-> h, freed |-> freed]}
    ELSE UNION { CleanupStrict(l2, HeapPop(h), t, Append(freed, Freed(HeapPeek(h), t))) :
                 l2 \in Free(l, HeapPeek(h).state) }

\* LogicWrapper::cleanup with `now` read once as t: the set of outcomes
\* [logic, delayed_frees, freed], freed listing the free calls in order.
RECURSIVE Cleanup(_, _, _, _)
Cleanup(l, h, t, freed) ==
    IF h = <<>> \/ t < HeapPeek(h).due
    THEN {[logic |-> l, delayed_frees |-> h, freed |-> freed]}
    ELSE UNION { Cleanup(l2, HeapPop(h), t, Append(freed, Freed(HeapPeek(h), t))) :
                 l2 \in Free(l, HeapPeek(h).state) }

\* ------------------------------------------------------------- the Mutex
\* lock() granting the Mutex whatever its owner
MutexLockBarging(c, h, w) == <<c, w, "locked">>

\* Mutex::lock().await entered by caller c when the Mutex has owner h (0: none)
\* and queue w: <<owner after, queue after, c's position after>>. The caller
\* takes a free Mutex at once and otherwise suspends at the back of the queue.
MutexLock(c, h, w) ==
    IF h = 0 THEN <<c, w, "locked">> ELSE <<h, Append(w, c), "waiting">>

\* A drop that frees the Mutex without waking the queue
MutexUnlockLost(w) == <<0, w>>

\* Dropping the MutexGuard: the lock passes to the longest-waiting caller.
\* <<owner after, queue after>>
MutexUnlock(w) == IF w = <<>> THEN <<0, <<>>>> ELSE <<Head(w), Tail(w)>>

\* pc once caller c moves to `next` and the Mutex gets owner h
Moved(c, next, h) ==
    [x \in Callers |->
        IF x = c THEN next
        ELSE IF x = h /\ pc[x] = "waiting" THEN "locked" ELSE pc[x]]

\* ------------------------------------------------------------------ Init
Policies ==
    {TimeoutNew(t) : t \in Durations}
    \cup {QuotaPerNew(q, t) : q \in 0..MaxQuota, t \in Durations}
    \cup {CustomNew(b) : b \in BOOLEAN}

\* Limiter::new over one of the policies P, in a build with overflow checks
\* as in B: LogicWrapper::new, Mutex::new
InitBuild(P, B) ==
    /\ logic \in P
    /\ overflow_checks \in B
    /\ delayed_frees = <<>>
    /\ holder = 0
    /\ waiters = <<>>
    /\ pc = [c \in Callers |-> "idle"]
    /\ arg = [c \in Callers |-> 0]
    /\ wake = [c \in Callers |-> 0]
    /\ now = 0
    /\ calls = 0
    /\ cancels = 0
    /\ admLog = <<>>
    /\ freeLog = <<>>

\* No sum of the weights up to MaxWeight leaves the u64 range, whatever the
\* build: the build of `cargo test` is taken.
InitWith(P) == InitBuild(P, {TRUE})

Init == InitWith(Policies)

\* --------------------------------------------------------------- actions
\* A caller calls limiter.sync(state) and runs to self.internal.lock().await.
SyncWith(c, values) ==
    /\ pc[c] \in {"idle", "done", "cancelled"}
    /\ calls < MaxCalls
    /\ \E s \in values : arg' = [arg EXCEPT ![c] = s]
    /\ LET m == MutexLock(c, holder, waiters)
       IN  /\ holder' = m[1]
           /\ waiters' = m[2]
           /\ pc' = [pc EXCEPT ![c] = m[3]]
    /\ calls' = calls + 1
    /\ UNCHANGED <<logic, delayed_frees, wake, now, cancels, admLog, freeLog, overflow_checks>>

Sync(c) == SyncWith(c, StateValues(logic))

\* sync with a unit weight or with u64::MAX
SyncWide(c) == SyncWith(c, {1, MaxU64})

\* internal.ready(): cleanup, then is_ready; when not ready the caller
\* starts tokio::time::sleep(self.polling_timeout), the guard still alive.
Ready(c) ==
    /\ pc[c] = "locked"
    /\ \E r \in Cleanup(logic, delayed_frees, now, <<>>) :
        /\ logic' = r.logic
        /\ delayed_frees' = r.delayed_frees
        /\ freeLog' = freeLog \o r.freed
        /\ IF IsReady(r.logic)
           THEN /\ pc' = [pc EXCEPT ![c] = "add"]
                /\ UNCHANGED wake
           ELSE /\ pc' = [pc EXCEPT ![c] = "sleep"]
                /\ wake' = [wake EXCEPT ![c] = now + PollingTimeout]
    /\ UNCHANGED <<holder, waiters, arg, now, calls, cancels, admLog, overflow_checks>>

\* add whose guard is never dropped
AddKeepGuard(c) ==
    /\ pc[c] = "add"
    /\ \E a \in AddFor(logic, arg[c]) :
        /\ logic' = a[1]
        /\ delayed_frees' = HeapPush(delayed_frees,
                [due |-> now + a[2], state |-> arg[c], id |-> Len(admLog) + 1])
        /\ admLog' = Append(admLog, [caller |-> c, state |-> arg[c], at |-> now,
                                     due |-> now + a[2], before |-> logic.state])
    /\ pc' = [pc EXCEPT ![c] = "done"]
    /\ UNCHANGED <<holder, waiters, arg, wake, now, calls, cancels, freeLog, overflow_checks>>

\* internal.add(state); break: the guard is dropped and sync returns. When
\* add_for's sum overflows in a build with overflow checks, add_for panics
\* before it stores: the task unwinds, which drops the guard, and nothing is
\* pushed.
Add(c) ==
    /\ pc[c] = "add"
    /\ IF overflow_checks /\ AddOverflows(logic, arg[c])
       THEN /\ UNCHANGED <<logic, delayed_frees, admLog>>
            /\ LET u == MutexUnlock(waiters)
               IN  /\ holder' = u[1]
                   /\ waiters' = u[2]
                   /\ pc' = Moved(c, "panicked", u[1])
       ELSE /\ \E a \in AddFor(logic, arg[c]) :
                LET delayed_for == now + a[2]
                    id == Len(admLog) + 1
                IN  /\ logic' = a[1]
                    /\ delayed_frees' = HeapPush(delayed_frees,
                                            [due |-> delayed_for, state |-> arg[c], id |-> id])
                    /\ admLog' = Append(admLog, [caller |-> c, state |-> arg[c], at |-> now,
                                                 due |-> delayed_for, before |-> logic.state])
            /\ LET u == MutexUnlock(waiters)
               IN  /\ holder' = u[1]
                   /\ waiters' = u[2]
                   /\ pc' = Moved(c, "done", u[1])
    /\ UNCHANGED <<arg, wake, now, calls, cancels, freeLog, overflow_checks>>

\* The sleep elapses; `continue` ends the iteration, which drops the guard,
\* and the next iteration runs to self.internal.lock().await.
Wake(c) ==
    /\ pc[c] = "sleep"
    /\ wake[c] <= now
    /\ LET u == MutexUnlock(waiters)
           m == MutexLock(c, u[1], u[2])
       IN  /\ holder' = m[1]
           /\ waiters' = m[2]
           /\ pc' = Moved(c, m[3], m[1])
    /\ wake' = [wake EXCEPT ![c] = 0]
    /\ UNCHANGED <<logic, delayed_frees, arg, now, calls, cancels, admLog, freeLog, overflow_checks>>

\* A cancellation that leaks the guard of a sleeping caller
CancelLeak(c) ==
    /\ pc[c] \in {"waiting", "sleep"}
    /\ waiters' = SelectSeq(waiters, LAMBDA x : x # c)
    /\ pc' = [pc EXCEPT ![c] = "cancelled"]
    /\ wake' = [wake EXCEPT ![c] = 0]
    /\ cancels' = cancels + 1
    /\ UNCHANGED <<logic, delayed_frees, holder, arg, now, calls, admLog, freeLog, overflow_checks>>

\* The caller drops the sync future at a suspension point: while queued in
\* lock().await, or in the sleep (which drops the guard it holds).
Cancel(c) ==
    /\ \/ /\ pc[c] = "waiting"
          /\ waiters' = SelectSeq(waiters, LAMBDA x : x # c)
          /\ pc' = [pc EXCEPT ![c] = "cancelled"]
          /\ UNCHANGED holder
       \/ /\ pc[c] = "sleep"
          /\ LET u == MutexUnlock(waiters)
             IN  /\ holder' = u[1]
                 /\ waiters' = u[2]
                 /\ pc' = Moved(c, "cancelled", u[1])
    /\ wake' = [wake EXCEPT ![c] = 0]
    /\ cancels' = cancels + 1
    /\ UNCHANGED <<logic, delayed_frees, arg, now, calls, admLog, freeLog, overflow_checks>>

\* Time passes.
Tick ==
    /\ now < MaxTime
    /\ now' = now + 1
    /\ UNCHANGED <<logic, delayed_frees, holder, waiters, pc, arg, wake, calls, cancels, admLog, freeLog, overflow_checks>>

Next ==
    \/ \E c \in Callers : Sync(c)
    \/ \E c \in Callers : Ready(c)
    \/ \E c \in Callers : Add(c)
    \/ \E c \in Callers : Wake(c)
    \/ Tick

\* Callers run sync to completion.
Spec == Init /\ [][Next]_vars

\* Callers may also abandon a sync call from outside.
NextCancel ==
    \/ Next
    \/ \E c \in Callers : Cancel(c)

SpecCancel == Init /\ [][NextCancel]_vars

\* The runtime polls every task that can make progress (a task owning the
\* Mutex, or one whose sleep has elapsed), and time advances.
Fairness ==
    /\ \A c \in Callers : WF_vars(Ready(c) \/ Add(c) \/ Wake(c))
    /\ WF_vars(Tick)

InitLive ==
    InitWith({TimeoutNew(0), TimeoutNew(MaxTimeout), QuotaPerNew(GenerousQuota, MaxTimeout)})

\* Each caller calls sync once.
SyncOnce(c) == pc[c] = "idle" /\ Sync(c)

NextLive ==
    \/ \E c \in Callers : SyncOnce(c)
    \/ \E c \in Callers : Ready(c)
    \/ \E c \in Callers : Add(c)
    \/ \E c \in Callers : Wake(c)
    \/ Tick

SpecLive == InitLive /\ [][NextLive]_vars /\ Fairness

\* QuotaPer driven with weights up to u64::MAX, in either build.
InitWide ==
    InitBuild({QuotaPerNew(q, t) : q \in {MaxQuota + 1, MaxU64}, t \in Durations}, BOOLEAN)

NextWide ==
    \/ \E c \in Callers : SyncWide(c)
    \/ \E c \in Callers : Ready(c)
    \/ \E c \in Callers : Add(c)
    \/ \E c \in Callers : Wake(c)
    \/ Tick

SpecWide == InitWide /\ [][NextWide]_vars

\* The BinaryHeap of HeapValue driven alone: records with any due timestamps
\* are pushed in any order and popped; the rest of the Limiter stays as built.
InitHeap == InitWith({CustomNew(TRUE)})

HeapInsert ==
    /\ Len(delayed_frees) < MaxHeap
    /\ \E d \in 0..MaxTime, s \in {1, MaxWeight} :
        delayed_frees' = HeapPush(delayed_frees, [due |-> d, state |-> s, id |-> 0])
    /\ UNCHANGED <<logic, holder, waiters, pc, arg, wake, now, calls, cancels,
                   overflow_checks, admLog, freeLog>>

HeapRemove ==
    /\ delayed_frees # <<>>
    /\ delayed_frees' = HeapPop(delayed_frees)
    /\ UNCHANGED <<logic, holder, waiters, pc, arg, wake, now, calls, cancels,
                   overflow_checks, admLog, freeLog>>

NextHeap == HeapInsert \/ HeapRemove

SpecHeap == InitHeap /\ [][NextHeap]_vars

\* ---------------------------------------------------------------- claims
InCritical(c) == pc[c] \in {"locked", "add", "sleep"}

InFlight == {c \in Callers : pc[c] \in {"waiting", "locked", "add", "sleep"}}

AllUnit == \A i \in 1..Len(admLog) : admLog[i].state = 1

\* C1: under QuotaPer(Q, T), every admission was granted with the counter,
\* read just before add_for, strictly less than Q.
C1_CapacityBound ==
    logic.kind = "QuotaPer" =>
        \A i \in 1..Len(admLog) : admLog[i].before < logic.quota

C1_Witness ==
    /\ logic.kind = "QuotaPer"
    /\ Len(admLog) >= 2
    /\ admLog[1].caller # admLog[2].caller
    /\ \E c \in Callers : pc[c] = "sleep"

\* C2: under QuotaPer(Q, T) with Q >= 1 and unit weights only, the first and
\* the last of any Q+1 consecutive admissions are at least T apart.
C2_UnitSpacing ==
    (logic.kind = "QuotaPer" /\ logic.quota >= 1 /\ AllUnit) =>
        \A i, j \in 1..Len(admLog) :
            j = i + logic.quota => admLog[j].at >= admLog[i].at + logic.timeout

C2_Witness ==
    /\ logic.kind = "QuotaPer"
    /\ logic.quota >= 1
    /\ logic.timeout >= 1
    /\ AllUnit
    /\ Len(admLog) >= logic.quota + 1

\* C3: under Timeout(T), an attempt made after an admission at t0 (the latest
\* one) finds is_ready true exactly when it is made at or after t0 + T; and any
\* two admissions are at least T apart.
C3_TimeoutCooldown ==
    /\ [][\A c \in Callers :
            (logic.kind = "Timeout" /\ admLog # <<>>
                /\ pc[c] = "locked" /\ pc'[c] \in {"add", "sleep"})
            => ((pc'[c] = "add") <=> (now >= admLog[Len(admLog)].at + logic.timeout))]_vars
    /\ [](logic.kind = "Timeout" =>
            \A i, j \in 1..Len(admLog) :
                i < j => admLog[j].at >= admLog[i].at + logic.timeout)

C3_Witness ==
    /\ logic.kind = "Timeout"
    /\ logic.timeout >= 1
    /\ Len(admLog) >= 2
    /\ \E c \in Callers : pc[c] = "sleep"

\* C4: under Timeout(T) the scheduler never holds more than one
\* pending-release record.
C4_OneOutstanding ==
    logic.kind = "Timeout" => Len(delayed_frees) <= 1

C4_Witness ==
    /\ logic.kind = "Timeout"
    /\ Len(delayed_frees) = 1
    /\ \E c \in Callers : pc[c] = "sleep"
    /\ \E c \in Callers : pc[c] = "waiting"

\* C5: every free call is made at or after the due timestamp of its record,
\* with the state value given to add_for for that admission, and at most once
\* per record; under QuotaPer(Q, T) no earlier than T after the admission.
C5_ReleaseCorrect ==
    \A k \in 1..Len(freeLog) :
        LET f == freeLog[k]
            a == admLog[f.id]
        IN  /\ f.at >= a.due
            /\ f.state = a.state
            /\ \A k2 \in 1..Len(freeLog) : freeLog[k2].id = f.id => k2 = k
            /\ \A i \in 1..Len(delayed_frees) : delayed_frees[i].id # f.id
            /\ logic.kind = "QuotaPer" => f.at >= a.at + logic.timeout

C5_Witness ==
    /\ Len(freeLog) >= 2
    /\ freeLog[1].id > freeLog[2].id
    /\ freeLog[1].state # freeLog[2].state
    /\ delayed_frees # <<>>

\* C6: at most one caller is inside the prune + is_ready + add_for/push
\* cycle (or holds the guard otherwise), and that caller owns the Mutex.
C6_MutualExclusion ==
    /\ Cardinality({c \in Callers : InCritical(c)}) <= 1
    /\ \A c \in Callers : InCritical(c) <=> holder = c

C6_Witness ==
    /\ \E c \in Callers : pc[c] = "add"
    /\ \E c \in Callers : pc[c] = "waiting"

\* C7: no caller holds the lock while it is in the poll-interval sleep.
C7_SleepUnlocked ==
    \A c \in Callers : pc[c] = "sleep" => holder # c

\* C8: under Timeout(0), or QuotaPer with a quota above the total weight
\* requested, every sync call eventually returns.
C8_Liveness ==
    ((logic.kind = "Timeout" /\ logic.timeout = 0)
        \/ (logic.kind = "QuotaPer" /\ logic.quota = GenerousQuota))
    => \A c \in Callers : (c \in InFlight) ~> (pc[c] = "done")

C8_Witness ==
    /\ (logic.kind = "Timeout" /\ logic.timeout = 0)
        \/ (logic.kind = "QuotaPer" /\ logic.quota = GenerousQuota)
    /\ Len(admLog) = NCallers
    /\ \A c \in Callers : pc[c] = "done"

\* C9: under QuotaPer(Q, T) the counter is at most Q in every reachable state.
C9_CounterAtMostQuota ==
    logic.kind = "QuotaPer" => logic.state <= logic.quota

\* C10: an abandoned sync call leaves no trace: the caller neither owns the
\* Mutex nor queues for it, the Mutex is owned only by a caller inside sync,
\* and every call is exactly one of admitted (one add, one record),
\* abandoned (none) or still in flight.
C10_CancelLeavesNothing ==
    /\ \A c \in Callers :
        pc[c] = "cancelled" =>
            /\ holder # c
            /\ \A i \in 1..Len(waiters) : waiters[i] # c
    /\ holder # 0 => InCritical(holder)
    /\ Len(admLog) + cancels + Cardinality(InFlight) = calls
    /\ Len(delayed_frees) + Len(freeLog) = Len(admLog)

C10_Witness ==
    /\ cancels >= 2
    /\ \E c \in Callers : pc[c] = "cancelled"
    /\ Len(admLog) >= 1
    /\ holder = 0

\* C11: driven through the gate, add_for's sum counter + w never leaves the
\* u64 range: no admission wrapped the counter and no add_for panicked.
C11_NoOverflow ==
    /\ \A c \in Callers : pc[c] # "panicked"
    /\ \A i \in 1..Len(admLog) : admLog[i].before + admLog[i].state <= MaxU64

\* The records a heap holds
Records(h) == {h[i] : i \in 1..Len(h)}

\* Caller c's attempt runs its prune and is_ready in this step
Attempts(c) == pc[c] = "locked" /\ pc'[c] \in {"add", "sleep"}

\* The free calls this step made, in order
NewFrees == SubSeq(freeLog', Len(freeLog) + 1, Len(freeLog'))

\* C12: a prune at time now frees exactly the records due at or before now,
\* earliest due first, and leaves exactly the records due after now, also when
\* durations differ between admissions.
C12_PruneExact ==
    [][\A c \in Callers : Attempts(c) =>
        /\ Records(delayed_frees') = {r \in Records(delayed_frees) : r.due > now}
        /\ Len(delayed_frees') = Cardinality(Records(delayed_frees'))
        /\ {NewFrees[k].id : k \in 1..Len(NewFrees)}
              = {r.id : r \in {x \in Records(delayed_frees) : x.due <= now}}
        /\ \A k1, k2 \in 1..Len(NewFrees) :
              k1 < k2 => admLog[NewFrees[k1].id].due <= admLog[NewFrees[k2].id].due]_vars

C12_Witness ==
    \E k1, k2 \in 1..Len(freeLog) :
        /\ k1 < k2
        /\ freeLog[k1].id > freeLog[k2].id
        /\ freeLog[k1].at = freeLog[k2].at
        /\ admLog[freeLog[k1].id].due < admLog[freeLog[k2].id].due

\* Readiness as the policies define it: Timeout (and the user-defined Logic)
\* is ready when not in cooldown, QuotaPer when the counter is below the quota.
PolicyReady(l) == IF l.kind = "QuotaPer" THEN l.state < l.quota ELSE ~l.is_timed_out

\* The duration the policy's add_for returns for state value s
PolicyDuration(l, s) == IF l.kind = "Custom" THEN s ELSE l.timeout

\* Caller c's sync returns in this step
Returns(c) == pc[c] = "add" /\ pc'[c] = "done"

\* C13: a caller about to call add_for owns the Mutex and the policy is still
\* ready, and while it is about to, no step changes the policy or the
\* scheduler; add_for is called by no other step.
C13_AddAfterReady ==
    /\ [](\A c \in Callers : pc[c] = "add" => (holder = c /\ PolicyReady(logic)))
    /\ [][/\ \A c \in Callers :
                (pc[c] = "add" /\ pc'[c] = "add")
                    => (logic' = logic /\ delayed_frees' = delayed_frees)
          /\ admLog' # admLog => \E c \in Callers : Returns(c)]_vars

C13_Witness ==
    /\ admLog # <<>>
    /\ \E c \in Callers : pc[c] = "add" /\ admLog[Len(admLog)].at < now
    /\ \E c \in Callers : pc[c] = "waiting"
    /\ freeLog # <<>>

\* C14: an attempt goes on to add exactly when is_ready is true after its
\* prune (it never sleeps when ready), and the caller that goes on is the one
\* admitted next; nothing ties the admission order to the arrival order.
C14_ReadyMeansAdmitted ==
    [][\A c \in Callers :
        /\ Attempts(c) => ((pc'[c] = "add") <=> PolicyReady(logic'))
        /\ (pc[c] = "add" /\ pc'[c] # "add") =>
              /\ Returns(c)
              /\ Len(admLog') = Len(admLog) + 1
              /\ admLog'[Len(admLog')].caller = c]_vars

C14_Witness ==
    /\ Len(admLog) >= 2
    /\ admLog[1].caller = admLog[2].caller
    /\ \E c \in Callers : c # admLog[1].caller /\ pc[c] = "locked"
    /\ calls = MaxCalls

\* C15: every return of sync adds exactly one record, due at the admission
\* time plus the duration add_for returned and carrying the caller's state;
\* no other step adds a record.
C15_OneRecordPerAdmission ==
    [][/\ \A c \in Callers : Returns(c) =>
            \E r \in Records(delayed_frees') :
                /\ r \notin Records(delayed_frees)
                /\ Records(delayed_frees') = Records(delayed_frees) \cup {r}
                /\ Len(delayed_frees') = Len(delayed_frees) + 1
                /\ r.due = now + PolicyDuration(logic, arg[c])
                /\ r.state = arg[c]
       /\ ~(Records(delayed_frees') \subseteq Records(delayed_frees))
            => \E c \in Callers : Returns(c)]_vars

C15_Witness ==
    /\ Len(delayed_frees) >= 2
    /\ Len(delayed_frees) = Len(admLog)
    /\ delayed_frees[1].id = 2
    /\ delayed_frees[1].due < delayed_frees[2].due

\* The due timestamps repeated peek-and-pop yields from heap h
RECURSIVE Drain(_)
Drain(h) == IF h = <<>> THEN <<>> ELSE <<HeapPeek(h).due>> \o Drain(HeapPop(h))

\* How many elements of sequence q satisfy being equal to v
Count(q, v) == Cardinality({i \in 1..Len(q) : q[i] = v})

\* C16: whatever the insertion order, peek returns a record of minimum due
\* timestamp, and repeated pops yield every record's timestamp once, in
\* non-decreasing order.
C16_HeapOrder ==
    LET h == delayed_frees
        d == Drain(h)
    IN  /\ \A i \in 1..Len(h) : HeapPeek(h).due <= h[i].due
        /\ \A k \in 1..(Len(d) - 1) : d[k] <= d[k + 1]
        /\ Len(d) = Len(h)
        /\ \A v \in 0..MaxTime : Count(d, v) = Count([i \in 1..Len(h) |-> h[i].due], v)

C16_Witness ==
    /\ Len(delayed_frees) = MaxHeap
    /\ \E i, j \in 1..MaxHeap : i < j /\ delayed_frees[i].due > delayed_frees[j].due
    /\ \E i, j \in 1..MaxHeap :
        /\ i # j
        /\ delayed_frees[i].due = delayed_frees[j].due
        /\ delayed_frees[i].state # delayed_frees[j].state

\* The sum of the state values (weights) of the records of heap h
RECURSIVE SumStates(_)
SumStates(h) == IF h = <<>> THEN 0 ELSE Head(h).state + SumStates(Tail(h))

\* C17: under QuotaPer, whenever the lock is free the counter equals the sum
\* of the weights of the pending records (so no free underflows).
C17_CounterIsPendingSum ==
    (logic.kind = "QuotaPer" /\ holder = 0) => logic.state = SumStates(delayed_frees)

\* C18: a caller owning the Mutex gives it up after its own next steps: after
\* ready() it either adds and drops the guard or sleeps, and a sleep whose
\* deadline the clock reaches ends with the guard dropped; the Mutex is owned
\* only by a caller inside sync.
C18_LockReleased ==
    /\ \A c \in Callers :
        /\ (holder = c /\ pc[c] \in {"locked", "add"}) ~> (holder # c \/ pc[c] = "sleep")
        /\ (pc[c] = "sleep" /\ wake[c] <= MaxTime) ~> (pc[c] # "sleep")
    /\ [](holder # 0 => InCritical(holder))
    /\ [][\A c \in Callers :
            /\ (pc[c] = "locked" /\ pc'[c] # "locked") => pc'[c] \in {"add", "sleep"}
            /\ (pc[c] = "add" /\ pc'[c] # "add") => holder' # c
            /\ (pc[c] = "sleep" /\ pc'[c] # "sleep") =>
                  (pc'[c] \in {"locked", "waiting"}
                   /\ (waiters # <<>> => holder' = Head(waiters)))]_vars

C18_Witness ==
    /\ logic.kind = "Timeout"
    /\ logic.timeout >= 1
    /\ Len(admLog) = NCallers
    /\ holder = 0
    /\ \A c \in Callers : pc[c] = "done"

\* C19: under Timeout, whenever no caller is inside ready() or add() (so
\* whenever the lock is free), is_timed_out is set exactly when a record is
\* pending.
C19_FlagIffPending ==
    logic.kind = "Timeout" => (logic.is_timed_out <=> delayed_frees # <<>>)

C19_Witness ==
    /\ logic.kind = "Timeout"
    /\ holder = 0
    /\ logic.is_timed_out
    /\ freeLog # <<>>
    /\ delayed_frees[1].due <= now

\* C20: an attempt that finds is_ready false logs no add_for, pushes nothing,
\* keeps every record not yet due, and changes the policy only by the frees of
\* its prune; its sleep and wake-up change neither policy nor scheduler.
C20_FailedAttemptFrame ==
    [][\A c \in Callers :
        /\ (Attempts(c) /\ pc'[c] = "sleep") =>
              /\ admLog' = admLog
              /\ Records(delayed_frees') \subseteq Records(delayed_frees)
              /\ {r \in Records(delayed_frees) : r.due > now} \subseteq Records(delayed_frees')
              /\ Len(delayed_frees') = Cardinality(Records(delayed_frees'))
              /\ logic'.kind = logic.kind
              /\ logic'.quota = logic.quota
              /\ logic'.timeout = logic.timeout
              /\ logic.kind = "QuotaPer" =>
                    logic'.state = logic.state - (SumStates(delayed_frees)
                                                    - SumStates(delayed_frees'))
              /\ NewFrees = <<>> => logic' = logic
        /\ (pc[c] = "sleep" /\ pc'[c] # "sleep") =>
              (logic' = logic /\ delayed_frees' = delayed_frees /\ admLog' = admLog)]_vars

C20_Witness ==
    /\ freeLog # <<>>
    /\ delayed_frees # <<>>
    /\ \E c \in Callers :
        /\ pc[c] = "sleep"
        /\ wake[c] = freeLog[Len(freeLog)].at + PollingTimeout

====
